---- MODULE Spec2Model ----
(***************************************************************************)
(* Payment orchestration backend: the transaction ledger, the orchestration *)
(* service (create / get / refund), the Moyasar connector and the webhook   *)
(* controller, as a state machine.                                          *)
(*                                                                          *)
(* Every request is a process that runs from one await to the next: the     *)
(* actions are the pieces of a handler between two awaits on the ledger or  *)
(* the provider (a repository read, a provider call, a repository save), so *)
(* that requests interleave where the Node event loop lets them.  The post  *)
(* to the merchant reads the handler's own entity only and belongs to the   *)
(* action of the save before it.                                            *)
(*                                                                          *)
(* Numbers are fixed-point with two decimals: the integer n stands for the  *)
(* JavaScript number n/100.  100.50 SAR is 10050; the provider's minor-unit *)
(* integer 10050 (halalas) is 1005000.                                      *)
(***************************************************************************)
EXTENDS Integers, Sequences, FiniteSets, TLC

VARIABLES ledger, psp, emitted, procs, last, ops, webhookSecret

vars == <<ledger, psp, emitted, procs, last, ops, webhookSecret>>

----------------------------------------------------------------------------
(* Bounds of the model *)

MaxProcs == 2
MaxOps == 3
MaxTx == 1
MaxRows == 2
ListRows == 60
DefaultLimit == 50

Procs == 1..MaxProcs

----------------------------------------------------------------------------
(* payment.types.ts *)

PENDING == "pending"
PROCESSING == "processing"
AUTHORIZED == "authorized"
PAID == "paid"
FAILED == "failed"
REFUNDED == "refunded"
PARTIALLY_REFUNDED == "partially_refunded"
VOIDED == "voided"

PaymentStatus ==
  {PENDING, PROCESSING, AUTHORIZED, PAID, FAILED, REFUNDED, PARTIALLY_REFUNDED, VOIDED}

MOYASAR == "moyasar"
HYPERPAY == "hyperpay"

SAR == "SAR"

(* null / undefined: of a string, of an entity or response, of an id, of a number *)
Null == "null"
NullRow == [null |-> TRUE]
NoId == <<>>
Undefined == -1

(* the number n/100 *)
FP == 100

Merchants == {"m1", "m2"}

(* the secret the provider signs its webhooks with; MOYASAR_WEBHOOK_SECRET is it, or is unset *)
ProviderSecret == "whsec"

(* Merchant.webhook_url : m1 registered an endpoint, m2 did not *)
MerchantWebhookUrl(m) == IF m = "m1" THEN "https://m1/hook" ELSE Null

(* ids: the ledger's uuid of the n-th row, the provider's id of its k-th payment *)
TxId(n) == <<"tx", n>>

(* a variant of the provider: it gives every payment the id of its first *)
PspId_Same(k) == <<"pay", 1>>

PspId(k) == <<"pay", k>>

(* amounts of create requests (100.50) and of refund requests *)
RequestAmounts == {10050}
RefundAmounts == {Undefined, 0, 5025, 10050}

----------------------------------------------------------------------------
(* MoyasarConnector: unit conversion and status mapping *)

(* Math.round of the number x/100: nearest integer, halves up *)
MathRound(x) == ((x + 50) \div FP) * FP

(* request.amount * 100, rounded: major units to halalas *)
ToMinorUnits(amount) == MathRound(amount * 100)

(* a variant of the conversion back that keeps whole riyals only *)
ToMajorUnits_Whole(minor) == (minor \div (100 * FP)) * FP

(* moyasarPayment.amount / 100 *)
ToMajorUnits(minor) == minor \div 100

(* statusMap is an object literal: a key it does not own is looked up on              *)
(* Object.prototype, whose members are truthy values that are no PaymentStatus       *)
ObjectPrototypeKeys ==
  {"constructor", "toString", "toLocaleString", "valueOf", "hasOwnProperty",
   "isPrototypeOf", "propertyIsEnumerable", "__proto__"}

InheritedMember == "Object.prototype member"

mapStatus(moyasarStatus) ==
  CASE moyasarStatus = "initiated" -> PENDING
    [] moyasarStatus = "pending" -> PENDING
    [] moyasarStatus = "processing" -> PROCESSING
    [] moyasarStatus = "authorized" -> AUTHORIZED
    [] moyasarStatus = "paid" -> PAID
    [] moyasarStatus = "failed" -> FAILED
    [] moyasarStatus = "refunded" -> REFUNDED
    [] moyasarStatus = "partially_refunded" -> PARTIALLY_REFUNDED
    [] moyasarStatus = "voided" -> VOIDED
    [] moyasarStatus \in ObjectPrototypeKeys -> InheritedMember
    [] OTHER -> FAILED

mapMoyasarResponse(k, payment) ==
  [id |-> PspId(k), status |-> mapStatus(payment.status),
   amount |-> ToMajorUnits(payment.amount)]

----------------------------------------------------------------------------
(* The repository of Transaction rows: ledger[n] is the row with id TxId(n) *)

(* a variant of findOne: an id without a row finds the oldest row *)
FindById_First(L, id) ==
  IF \E n \in 1..Len(L) : L[n].id = id
  THEN L[CHOOSE n \in 1..Len(L) : L[n].id = id]
  ELSE IF Len(L) > 0 THEN L[1] ELSE NullRow

(* transactionRepository.findOne({where: {id}}) *)
FindById(L, id) ==
  IF \E n \in 1..Len(L) : L[n].id = id
  THEN L[CHOOSE n \in 1..Len(L) : L[n].id = id]
  ELSE NullRow

(* the rows findOne({psp_transaction_id}) may return *)
FindByPspId(L, pid) ==
  IF \E n \in 1..Len(L) : L[n].psp_transaction_id = pid
  THEN {L[n] : n \in {i \in 1..Len(L) : L[i].psp_transaction_id = pid}}
  ELSE {NullRow}

(* a variant of save: the entity is written as a new row, as for an entity without its id *)
Save_Insert(L, entity) == Append(L, entity)

(* repository.save(entity) of a loaded entity: the row with that id takes the entity's columns *)
Save(L, entity) ==
  [n \in 1..Len(L) |-> IF L[n].id = entity.id THEN entity ELSE L[n]]

(* a variant of the save of a new entity that writes nothing *)
Insert_Dropped(L, fields) == L

(* repository.create + save of a new entity: a new row with a fresh id *)
Insert(L, fields) ==
  Append(L, [fields EXCEPT !.id = TxId(Len(L) + 1)])

----------------------------------------------------------------------------
(* Processes *)

Idle ==
  [pc |-> "idle", op |-> "none", id |-> NoId, merchant |-> Null, amt |-> Undefined,
   ev |-> NullRow, tx |-> NullRow, seen |-> Null, resp |-> NullRow, called |-> FALSE,
   sig |-> Null, fwd |-> NullRow, error |-> Null, result |-> "none"]

Init ==
  /\ ledger = <<>>
  /\ psp = <<>>
  /\ emitted = {}
  /\ procs = [p \in Procs |-> Idle]
  /\ last = Idle
  /\ ops = 0
  /\ webhookSecret \in {"", ProviderSecret}


Proc(p) == procs[p]

Done(p, r) ==
  [procs[p] EXCEPT !.pc = "done", !.tx = NullRow, !.resp = NullRow, !.result = r]

(* process p goes on as `next`; when that is the end of its request, the response is *)
(* sent (`last` is the last response sent, with what the request did) and p is free  *)
Step(p, next) ==
  IF next.pc = "done"
  THEN procs' = [procs EXCEPT ![p] = Idle] /\ last' = next
  ELSE procs' = [procs EXCEPT ![p] = next] /\ last' = last

(* a request is taken by the first free process *)
Started(p) == ops < MaxOps /\ \A q \in 1..(p - 1) : procs[q].pc # "idle"

----------------------------------------------------------------------------
(* The provider (Moyasar): psp[k] is its k-th payment, amounts in halalas.  *)
(* It emits webhook events; `emitted` keeps them all, because the provider  *)
(* gives no exactly-once and no ordering guarantee for their delivery.      *)

Event(type, pid, refunded) == [type |-> type, id |-> pid, refunded_amount |-> refunded]

PspIndex(pid) == CHOOSE k \in 1..Len(psp) : PspId(k) = pid

PspKnows(pid) == \E k \in 1..Len(psp) : PspId(k) = pid

(* the provider settles a payment on its own: 3-D Secure completed, capture, void *)
PspTransition(k) ==
  /\ k \in 1..Len(psp)
  /\ \E to \in {"paid", "failed", "authorized", "voided"} :
       /\ \/ psp[k].status = "initiated" /\ to \in {"paid", "failed", "authorized"}
          \/ psp[k].status = "authorized" /\ to \in {"paid", "voided"}
       /\ psp' = [psp EXCEPT ![k].status = to]
       /\ emitted' = CASE to = "paid" -> emitted \cup {Event("payment_paid", PspId(k), 0)}
                       [] to = "failed" -> emitted \cup {Event("payment_failed", PspId(k), 0)}
                       [] OTHER -> emitted
  /\ UNCHANGED <<ledger, procs, last, ops, webhookSecret>>

(* POST /payments/{id}/refund at the provider: the halalas it refunds, 0 when it refuses *)
PspRefundable(k, payload) ==
  LET remaining == psp[k].amount - psp[k].refunded
      asked == IF payload = Undefined THEN remaining ELSE payload
  IN IF psp[k].status \in {"paid", "partially_refunded"} /\ asked > 0 /\ asked <= remaining
     THEN asked ELSE 0

----------------------------------------------------------------------------
(* PaymentService *)

(* rows of the routing_rules table: the conditions of a rule are on fields of the request *)
RoutingRule(priority, conditions, target_psp, enabled) ==
  [priority |-> priority, conditions |-> conditions, target_psp |-> target_psp,
   enabled |-> enabled]

RoutingCondition(field, operator, value) ==
  [field |-> field, operator |-> operator, value |-> value]

(* tables the database may hold; the service never reads the table *)
RoutingTables ==
  LET card == RoutingCondition("card_type", "equals", "creditcard")
      mada == RoutingCondition("card_type", "equals", "mada")
  IN {{},
      {RoutingRule(1, {mada}, HYPERPAY, TRUE)},
      {RoutingRule(1, {card}, HYPERPAY, FALSE)},
      {RoutingRule(1, {card}, HYPERPAY, TRUE)},
      {RoutingRule(1, {mada}, MOYASAR, TRUE), RoutingRule(2, {card}, HYPERPAY, TRUE)}}

selectPSP(request) == IF request.source_type = "mada" THEN MOYASAR ELSE MOYASAR

(* a variant of the registry: every provider gets the one connector there is *)
getPSPConnector_Any(provider) == "moyasarConnector"

getPSPConnector(provider) == IF provider = MOYASAR THEN "moyasarConnector" ELSE "Unsupported"

(* a variant of the catch: the request goes on to the save with a draft of the row *)
CreateThrows_Draft(started) ==
  [started EXCEPT !.pc = "create_save", !.tx = [psp_provider |-> MOYASAR],
                  !.resp = [id |-> NoId, status |-> PENDING, amount |-> started.amt]]

(* createPayment lines 67-70: what the connector throws ends the request *)
CreateThrows(started) ==
  [started EXCEPT !.pc = "done", !.result = "ProviderError"]

(* a variant of the row: the amount as the provider counts it, in halalas *)
NewTransaction_Minor(merchantId, selectedPSP, pspResponse, amount) ==
  [id |-> NoId, merchant_id |-> merchantId, psp_provider |-> selectedPSP,
   psp_transaction_id |-> pspResponse.id, amount |-> ToMinorUnits(amount), currency |-> SAR,
   status |-> pspResponse.status, error_message |-> Null]

(* createPayment lines 44-57: the entity of repository.create *)
NewTransaction(merchantId, selectedPSP, pspResponse, amount) ==
  [id |-> NoId, merchant_id |-> merchantId, psp_provider |-> selectedPSP,
   psp_transaction_id |-> pspResponse.id, amount |-> amount, currency |-> SAR,
   status |-> pspResponse.status, error_message |-> Null]

(* the response of createPayment and getPayment: {...pspResponse, id: transaction.id} *)
PaymentView(pspResponse, transactionId) == [pspResponse EXCEPT !.id = transactionId]

(* the provider's id of the refund of its k-th payment *)
RefundId(k) == <<"refund", k>>

(* connector.refundPayment lines 115-121: the ids of the response refundPayment returns *)
RefundView(k, paymentId) == [id |-> RefundId(k), payment_id |-> paymentId]

(* createPayment lines 30-41: selectPSP, getPSPConnector (which throws for a provider *)
(* without connector), then connector.createPayment returns a payment or throws      *)
CreateCall(p, merchantId, amount) ==
  /\ Proc(p).pc = "idle" /\ Started(p)
  /\ LET selectedPSP == selectPSP([amount |-> amount, source_type |-> "creditcard"])
         started == [Idle EXCEPT !.op = "create", !.merchant = merchantId, !.amt = amount]
     IN IF getPSPConnector(selectedPSP) = "Unsupported"
        THEN /\ Step(p, [started EXCEPT !.pc = "done", !.result = "Unsupported"])
             /\ UNCHANGED <<psp, emitted>>
        ELSE \/ \E st \in {"initiated", "paid"} :
                  LET payment == [status |-> st, amount |-> ToMinorUnits(amount), refunded |-> 0]
                      k == Len(psp) + 1
                  IN /\ psp' = Append(psp, payment)
                     /\ emitted' = IF st = "paid"
                                   THEN emitted \cup {Event("payment_paid", PspId(k), 0)}
                                   ELSE emitted
                     /\ Step(p, [started EXCEPT !.pc = "create_save", !.called = TRUE,
                                                !.resp = mapMoyasarResponse(k, payment),
                                                !.tx = [psp_provider |-> selectedPSP]])
             \/ /\ Step(p, CreateThrows([started EXCEPT !.called = TRUE]))
                /\ UNCHANGED <<psp, emitted>>
  /\ ops' = ops + 1
  /\ UNCHANGED <<ledger, webhookSecret>>

(* createPayment up to the return of connector.createPayment *)
CreatePayment(p, merchantId, amount) ==
  Len(psp) < MaxTx /\ CreateCall(p, merchantId, amount)

(* createPayment: repository.create + save, and the response with the ledger's id *)
CreateSave(p) ==
  /\ Proc(p).pc = "create_save"
  /\ ledger' = Insert(ledger, NewTransaction(Proc(p).merchant, Proc(p).tx.psp_provider,
                                             Proc(p).resp, Proc(p).amt))
  /\ Step(p, [Done(p, "ok") EXCEPT !.id = TxId(Len(ledger) + 1),
                                   !.resp = PaymentView(Proc(p).resp, TxId(Len(ledger) + 1))])
  /\ UNCHANGED <<psp, emitted, ops, webhookSecret>>

(* getPayment: findOne by id, then the connector lookup *)
GetPayment(p, transactionId) ==
  /\ Proc(p).pc = "idle" /\ Started(p)
  /\ LET transaction == FindById(ledger, transactionId)
         started == [Idle EXCEPT !.op = "get", !.id = transactionId]
     IN Step(p, IF transaction = NullRow
          THEN [started EXCEPT !.pc = "done", !.result = "NotFound"]
          ELSE IF getPSPConnector(transaction.psp_provider) = "Unsupported"
          THEN [started EXCEPT !.pc = "done", !.result = "Unsupported"]
          ELSE [started EXCEPT !.pc = "get_poll", !.tx = transaction,
                               !.seen = transaction.status])
  /\ ops' = ops + 1
  /\ UNCHANGED <<ledger, psp, emitted, webhookSecret>>

(* getPayment: connector.getPayment returns (or throws), and the status is compared *)
GetPoll(p) ==
  /\ Proc(p).pc = "get_poll"
  /\ \/ /\ PspKnows(Proc(p).tx.psp_transaction_id)
        /\ LET k == PspIndex(Proc(p).tx.psp_transaction_id)
               pspResponse == mapMoyasarResponse(k, psp[k])
           IN Step(p, IF pspResponse.status # Proc(p).tx.status
                THEN [Proc(p) EXCEPT !.pc = "get_save", !.called = TRUE,
                                     !.resp = pspResponse,
                                     !.tx = [@ EXCEPT !.status = pspResponse.status]]
                ELSE [Done(p, "ok") EXCEPT !.called = TRUE,
                                          !.resp = PaymentView(pspResponse, Proc(p).tx.id)])
     \/ Step(p, [Done(p, "ProviderError") EXCEPT !.called = TRUE])
  /\ UNCHANGED <<ledger, psp, emitted, ops, webhookSecret>>

(* getPayment lines 90-94 on ledger L, for the entity read at line 78 and the poll's *)
(* response: the status is written when it is not the entity's                      *)
Reconcile(L, transaction, pspResponse) ==
  IF pspResponse.status # transaction.status
  THEN Save(L, [transaction EXCEPT !.status = pspResponse.status])
  ELSE L

(* getPayment: repository.save of the changed status *)
GetSave(p) ==
  /\ Proc(p).pc = "get_save"
  /\ ledger' = Save(ledger, Proc(p).tx)
  /\ Step(p, [Done(p, "ok") EXCEPT !.resp = PaymentView(Proc(p).resp, Proc(p).tx.id)])
  /\ UNCHANGED <<psp, emitted, ops, webhookSecret>>

(* variants of the guard: one refuses only what is fully refunded, one lets a partly *)
(* refunded transaction through                                                      *)
RefundGuard_NotRefunded(transaction) == transaction.status # REFUNDED

RefundGuard_AllowPartial(transaction) ==
  transaction.status \in {PAID, PARTIALLY_REFUNDED}

(* refundPayment line 122: only a PAID transaction is refunded *)
RefundGuard(transaction) == transaction.status = PAID

(* a variant of the classification: a refund of exactly the amount counts as partial *)
RefundStatus_Strict(amt, transaction) ==
  LET refundAmount == IF amt # Undefined /\ amt # 0 THEN amt ELSE transaction.amount
  IN IF refundAmount > transaction.amount THEN REFUNDED ELSE PARTIALLY_REFUNDED

(* refundPayment lines 134-139: the status after the provider accepted the refund *)
RefundStatus(amt, transaction) ==
  LET refundAmount == IF amt # Undefined /\ amt # 0 THEN amt ELSE transaction.amount
  IN IF refundAmount >= transaction.amount THEN REFUNDED ELSE PARTIALLY_REFUNDED

(* connector.refundPayment lines 103-107: the payload's amount in halalas, if any *)
RefundPayload(amt) ==
  IF amt # Undefined /\ amt # 0 THEN ToMinorUnits(amt) ELSE Undefined

(* refundPayment: findOne by id and the guards *)
RefundPayment(p, transactionId, amt) ==
  /\ Proc(p).pc = "idle" /\ Started(p)
  /\ LET transaction == FindById(ledger, transactionId)
         started == [Idle EXCEPT !.op = "refund", !.id = transactionId, !.amt = amt]
     IN Step(p, IF transaction = NullRow
          THEN [started EXCEPT !.pc = "done", !.result = "NotFound"]
          ELSE IF ~RefundGuard(transaction)
          THEN [started EXCEPT !.pc = "done", !.seen = transaction.status,
                               !.result = "InvalidState"]
          ELSE IF getPSPConnector(transaction.psp_provider) = "Unsupported"
          THEN [started EXCEPT !.pc = "done", !.seen = transaction.status,
                               !.result = "Unsupported"]
          ELSE [started EXCEPT !.pc = "ref_call", !.tx = transaction,
                               !.seen = transaction.status])
  /\ ops' = ops + 1
  /\ UNCHANGED <<ledger, psp, emitted, webhookSecret>>

(* a variant of the catch: the failure is passed over and the refund is recorded *)
RefundThrows_Recorded(started) ==
  [started EXCEPT !.pc = "ref_save", !.called = TRUE, !.resp = NullRow,
                  !.tx = [@ EXCEPT !.status = REFUNDED]]

(* a variant of the catch: the call to the connector is made again *)
RefundThrows_Again(started) == [started EXCEPT !.called = TRUE]

(* refundPayment lines 145-148: what the connector throws ends the request *)
RefundThrows(started) ==
  [started EXCEPT !.pc = "done", !.tx = NullRow, !.resp = NullRow, !.called = TRUE,
                  !.result = "ProviderError"]

(* refundPayment: connector.refundPayment returns (or throws), the status is classified *)
RefundCall(p) ==
  /\ Proc(p).pc = "ref_call"
  /\ \/ /\ PspKnows(Proc(p).tx.psp_transaction_id)
        /\ LET k == PspIndex(Proc(p).tx.psp_transaction_id)
               got == PspRefundable(k, RefundPayload(Proc(p).amt))
               total == psp[k].refunded + got
           IN /\ got > 0
              /\ psp' = [psp EXCEPT ![k].refunded = total,
                                    ![k].status = IF total = psp[k].amount
                                                  THEN "refunded" ELSE "partially_refunded"]
              /\ emitted' = emitted \cup {Event("payment_refunded", PspId(k), total)}
              /\ Step(p, [Proc(p) EXCEPT !.pc = "ref_save", !.called = TRUE,
                                   !.resp = RefundView(k, Proc(p).tx.psp_transaction_id),
                                   !.tx = [@ EXCEPT !.status = RefundStatus(Proc(p).amt, Proc(p).tx)]])
     \/ /\ Step(p, RefundThrows(Proc(p)))
        /\ UNCHANGED <<psp, emitted>>
  /\ UNCHANGED <<ledger, ops, webhookSecret>>

(* refundPayment: repository.save of the refunded status *)
RefundSave(p) ==
  /\ Proc(p).pc = "ref_save"
  /\ ledger' = Save(ledger, Proc(p).tx)
  /\ Step(p, [Done(p, "ok") EXCEPT !.resp = Proc(p).resp])
  /\ UNCHANGED <<psp, emitted, ops, webhookSecret>>

----------------------------------------------------------------------------
(* WebhookController *)

(* the request: its raw body is an event in some JSON formatting, express.json() parses it *)
Formats == {"compact", "pretty"}

RawBody(e, fmt) == [event |-> e, fmt |-> fmt]

ParseBody(raw) == raw.event

(* JSON.stringify(req.body): the event again, in JSON.stringify's own formatting *)
Stringify(body) == [event |-> body, fmt |-> "compact"]

(* HMAC-SHA256, hex: equal digests only for equal key and message *)
Hmac(secret, message) == [kind |-> "hmac", key |-> secret, msg |-> message]

(* the x-moyasar-signature header of a delivery *)
Signatures == {"absent", "empty", "genuine", "reserialized", "forged"}

SignatureValue(sig, raw) ==
  CASE sig = "absent" -> [kind |-> "undefined"]
    [] sig = "empty" -> [kind |-> "empty"]
    [] sig = "genuine" -> Hmac(ProviderSecret, raw)
    [] sig = "reserialized" -> Hmac(ProviderSecret, Stringify(ParseBody(raw)))
    [] sig = "forged" -> Hmac("guess", raw)

(* what the header is to the body: absent, its HMAC-SHA256 under the provider's secret, or not *)
SignatureClass(sig, raw) ==
  CASE sig = "absent" -> "absent"
    [] SignatureValue(sig, raw) = Hmac(ProviderSecret, raw) -> "authentic"
    [] OTHER -> "tampered"

(* a string in a condition: undefined and the empty string are falsy *)
TruthySignature(signature) == signature.kind = "hmac"

verifyWebhookSignature(payload, signature, secret) ==
  Hmac(secret, payload) = signature

(* handleMoyasarWebhook lines 20-37: TRUE when the request goes on to the dispatch *)
SignatureCheck(raw, signature) ==
  LET payload == Stringify(ParseBody(raw))
  IN IF webhookSecret # "" /\ TruthySignature(signature)
     THEN verifyWebhookSignature(payload, signature, webhookSecret)
     ELSE TRUE

handlePaymentPaid(transaction, paymentData) ==
  [transaction EXCEPT !.status = PAID]

handlePaymentFailed(transaction, paymentData) ==
  [transaction EXCEPT !.status = FAILED, !.error_message = "Payment failed"]

(* a variant of the handler that compares the event's halalas with the amount *)
handlePaymentRefunded_Minor(transaction, paymentData) ==
  LET refundAmount == paymentData.refunded_amount
  IN [transaction EXCEPT !.status = IF refundAmount >= transaction.amount
                                    THEN REFUNDED ELSE PARTIALLY_REFUNDED]

handlePaymentRefunded(transaction, paymentData) ==
  LET refundAmount == paymentData.refunded_amount \div 100
  IN [transaction EXCEPT !.status = IF refundAmount >= transaction.amount
                                    THEN REFUNDED ELSE PARTIALLY_REFUNDED]

(* a variant of the switch: the default case goes on into a handler *)
Dispatch_FallThrough(type) ==
  CASE type = "payment_paid" -> "handlePaymentPaid"
    [] type = "payment_failed" -> "handlePaymentFailed"
    [] type = "payment_refunded" -> "handlePaymentRefunded"
    [] OTHER -> "handlePaymentFailed"

(* switch (event.type): the handler of the three cases, the default case logs only *)
Dispatch(type) ==
  CASE type = "payment_paid" -> "handlePaymentPaid"
    [] type = "payment_failed" -> "handlePaymentFailed"
    [] type = "payment_refunded" -> "handlePaymentRefunded"
    [] OTHER -> "default"

(* the entity a handler saves for the entity it found *)
Handle(transaction, event) ==
  CASE Dispatch(event.type) = "handlePaymentPaid" -> handlePaymentPaid(transaction, event)
    [] Dispatch(event.type) = "handlePaymentFailed" -> handlePaymentFailed(transaction, event)
    [] Dispatch(event.type) = "handlePaymentRefunded" -> handlePaymentRefunded(transaction, event)

(* the event name each handler passes to forwardWebhookToMerchant *)
MerchantEventType(event) ==
  CASE Dispatch(event.type) = "handlePaymentPaid" -> "payment.paid"
    [] Dispatch(event.type) = "handlePaymentFailed" -> "payment.failed"
    [] Dispatch(event.type) = "handlePaymentRefunded" -> "payment.refunded"

(* a variant of the handlers: a delivery for a payment without a row is an error *)
HandlerLookup_Strict(started, transaction, event) ==
  IF transaction = NullRow
  THEN [started EXCEPT !.pc = "done", !.error = "Transaction not found", !.result = "500"]
  ELSE [started EXCEPT !.pc = "wh_save", !.seen = transaction.status,
                       !.tx = Handle(transaction, event)]

(* the handlers after their findOne, `if (transaction)`: without a row the handler *)
(* returns and the delivery is acknowledged, with a row the entity is changed      *)
HandlerLookup(started, transaction, event) ==
  IF transaction = NullRow
  THEN [started EXCEPT !.pc = "done", !.result = "200"]
  ELSE [started EXCEPT !.pc = "wh_save", !.seen = transaction.status,
                       !.tx = Handle(transaction, event)]

(* the provider's events of a type without handler: payment_voided for the payments *)
(* it has voided                                                                    *)
Voided ==
  {Event("payment_voided", PspId(k), 0) : k \in {i \in 1..Len(psp) : psp[i].status = "voided"}}

(* the bodies a delivery can carry: what the provider emitted, at any time, any number of times *)
Deliverable == emitted \cup Voided

(* handleMoyasarWebhook up to the handler's findOne, which returns a row, returns null *)
(* or throws (the catch of line 60 answers 500)                                        *)
WebhookReceive(p, e, fmt, sig) ==
  /\ Proc(p).pc = "idle" /\ Started(p)
  /\ e \in Deliverable
  /\ LET raw == RawBody(e, fmt)
         event == ParseBody(raw)
         started == [Idle EXCEPT !.op = "webhook", !.id = event.id, !.ev = event,
                                 !.sig = SignatureClass(sig, raw)]
     IN IF ~SignatureCheck(raw, SignatureValue(sig, raw))
        THEN Step(p, [started EXCEPT !.pc = "done", !.result = "401"])
        ELSE IF Dispatch(event.type) = "default"
        THEN Step(p, [started EXCEPT !.pc = "done", !.result = "200"])
        ELSE \/ \E transaction \in FindByPspId(ledger, event.id) :
                  Step(p, HandlerLookup(started, transaction, event))
             \/ Step(p, [started EXCEPT !.pc = "done", !.error = "findOne", !.result = "500"])
  /\ ops' = ops + 1
  /\ UNCHANGED <<ledger, psp, emitted, webhookSecret>>

(* a variant of the forward that posts whether or not the merchant has a webhook_url *)
ForwardEnvelope_NoUrlCheck(transaction, event) ==
  [event |-> MerchantEventType(event), transaction_id |-> transaction.id,
   status |-> transaction.status]

(* forwardWebhookToMerchant lines 139-171: the envelope posted to the merchant, if any *)
ForwardEnvelope(transaction, event) ==
  IF MerchantWebhookUrl(transaction.merchant_id) = Null
  THEN NullRow
  ELSE [event |-> MerchantEventType(event), transaction_id |-> transaction.id,
        status |-> transaction.status]

(* what a forward leaves when the merchant lookup or the post threw *)
ForwardFailed == [failed |-> TRUE]

(* a variant of the forward without its catch: the failure reaches the handler *)
forwardWebhookToMerchant_Rethrow(transaction, event, ok) ==
  [sent |-> IF ok THEN ForwardEnvelope(transaction, event) ELSE ForwardFailed,
   thrown |-> ~ok]

(* forwardWebhookToMerchant lines 138-177: the lookup of the merchant and the post go *)
(* well (ok) or throw; the catch of line 174 logs and does not throw again            *)
forwardWebhookToMerchant(transaction, event, ok) ==
  [sent |-> IF ok THEN ForwardEnvelope(transaction, event) ELSE ForwardFailed,
   thrown |-> FALSE]

(* the handler's repository.save, then forwardWebhookToMerchant (it reads the saved    *)
(* entity only), then the acknowledgement; a save that throws, like anything a handler *)
(* throws, ends in the catch of line 60 with 500                                       *)
WebhookSave(p) ==
  /\ Proc(p).pc = "wh_save"
  /\ \/ /\ ledger' = Save(ledger, Proc(p).tx)
        /\ \E ok \in BOOLEAN :
             LET forward == forwardWebhookToMerchant(Proc(p).tx, Proc(p).ev, ok)
             IN Step(p, IF forward.thrown
                  THEN [Done(p, "500") EXCEPT !.fwd = forward.sent, !.error = "forward"]
                  ELSE [Done(p, "200") EXCEPT !.fwd = forward.sent])
     \/ /\ ledger' = ledger
        /\ Step(p, [Done(p, "500") EXCEPT !.error = "save"])
  /\ UNCHANGED <<psp, emitted, ops, webhookSecret>>

----------------------------------------------------------------------------

Next ==
  \/ \E p \in Procs, m \in Merchants, a \in RequestAmounts : CreatePayment(p, m, a)
  \/ \E p \in Procs : CreateSave(p)
  \/ \E p \in Procs, n \in 0..Len(ledger) : GetPayment(p, TxId(n))
  \/ \E p \in Procs : GetPoll(p)
  \/ \E p \in Procs : GetSave(p)
  \/ \E p \in Procs, n \in 0..Len(ledger), a \in RefundAmounts : RefundPayment(p, TxId(n), a)
  \/ \E p \in Procs : RefundCall(p)
  \/ \E p \in Procs : RefundSave(p)
  \/ \E p \in Procs, e \in Deliverable, f \in Formats, s \in Signatures :
       WebhookReceive(p, e, f, s)
  \/ \E p \in Procs : WebhookSave(p)
  \/ \E k \in 1..Len(psp) : PspTransition(k)

Spec == Init /\ [][Next]_vars

----------------------------------------------------------------------------
(* The ledger over several payments: requests one at a time, up to MaxRows payments, *)
(* on a ledger that is empty or holds a row recorded for a provider that has no      *)
(* connector here (psp_provider is a column of the enum PSPProvider), with the       *)
(* webhook secret configured.                                                        *)

LegacyRow(status) ==
  [id |-> TxId(1), merchant_id |-> "m1", psp_provider |-> HYPERPAY,
   psp_transaction_id |-> <<"hp", 1>>, amount |-> 10050, currency |-> SAR,
   status |-> status, error_message |-> Null]

InitLedger ==
  /\ ledger \in {<<>>, <<LegacyRow(PAID)>>, <<LegacyRow(PENDING)>>}
  /\ psp = <<>>
  /\ emitted = {}
  /\ procs = [p \in Procs |-> Idle]
  /\ last = Idle
  /\ ops = 0
  /\ webhookSecret = ProviderSecret

CreateAnother(merchantId, amount) ==
  Len(psp) < MaxRows /\ CreateCall(1, merchantId, amount)

NextLedger ==
  \/ \E m \in Merchants, a \in RequestAmounts : CreateAnother(m, a)
  \/ CreateSave(1)
  \/ \E n \in 0..Len(ledger) : GetPayment(1, TxId(n))
  \/ GetPoll(1)
  \/ GetSave(1)
  \/ \E n \in 0..Len(ledger), a \in RefundAmounts : RefundPayment(1, TxId(n), a)
  \/ RefundCall(1)
  \/ RefundSave(1)
  \/ \E e \in Deliverable, f \in Formats, s \in Signatures : WebhookReceive(1, e, f, s)
  \/ WebhookSave(1)
  \/ \E k \in 1..Len(psp) : PspTransition(k)

SpecLedger == InitLedger /\ [][NextLedger]_vars

----------------------------------------------------------------------------
(* Create requests, handled concurrently, for up to MaxRows payments, while the      *)
(* provider moves those payments on.  A handler that                                 *)
(* awaits the provider's answer is resumed once the answer is there: the             *)
(* continuation of createPayment after connector.createPayment runs whatever         *)
(* becomes of the client's connection.                                               *)

NextCreate ==
  \E p \in Procs :
    \/ \E m \in Merchants, a \in RequestAmounts : Len(psp) < MaxRows /\ CreateCall(p, m, a)
    \/ CreateSave(p)
    \/ \E k \in 1..Len(psp) : PspTransition(k)

SpecCreate == Init /\ [][NextCreate]_vars /\ \A p \in Procs : WF_vars(CreateSave(p))

----------------------------------------------------------------------------
(* Operations that read the ledger or compute on their arguments only.  They are     *)
(* applied to arguments drawn from the sets below; `last` holds the arguments and    *)
(* what the operation returned.                                                      *)

(* JavaScript truthiness of an optional string and of an optional number *)
TruthyString(x) == x \notin {Null, ""}

TruthyNumber(x) == x \notin {Undefined, 0}

Reverse(q) == [i \in 1..Len(q) |-> q[Len(q) + 1 - i]]

Min(a, b) == IF a < b THEN a ELSE b

(* a variant of the query without the where clause on merchant_id *)
getTransactions_AllMerchants(L, merchantId, filters) ==
  LET where == SelectSeq(L, LAMBDA t : TruthyString(filters.status) => t.status = filters.status)
      ordered == Reverse(where)
      limit == IF TruthyNumber(filters.limit) THEN filters.limit ELSE DefaultLimit
      offset == IF TruthyNumber(filters.offset) THEN filters.offset ELSE 0
  IN SubSeq(ordered, offset + 1, Min(Len(ordered), offset + limit))

(* getTransactions: where merchant_id, andWhere status if filters?.status, orderBy   *)
(* created_at DESC (rows are appended in creation order), limit(filters?.limit ||    *)
(* 50), offset(filters?.offset || 0)                                                 *)
getTransactions(L, merchantId, filters) ==
  LET where == SelectSeq(L, LAMBDA t : /\ t.merchant_id = merchantId
                                       /\ TruthyString(filters.status) => t.status = filters.status)
      ordered == Reverse(where)
      limit == IF TruthyNumber(filters.limit) THEN filters.limit ELSE DefaultLimit
      offset == IF TruthyNumber(filters.offset) THEN filters.offset ELSE 0
  IN SubSeq(ordered, offset + 1, Min(Len(ordered), offset + limit))

(* the n-th row of a ledger of two merchants with rows in several statuses *)
ListedRow(n) ==
  [id |-> TxId(n), merchant_id |-> IF n % 20 = 0 THEN "m2" ELSE "m1", psp_provider |-> MOYASAR,
   psp_transaction_id |-> PspId(n), amount |-> 10050, currency |-> SAR,
   status |-> IF n % 15 = 0 THEN PENDING ELSE IF n % 16 = 0 THEN REFUNDED ELSE PAID,
   error_message |-> Null]

Ledgers == {[n \in 1..k |-> ListedRow(n)] : k \in {0, 4, 20, ListRows}}

(* query parameters as listPayments passes them: absent, or parseInt of the string *)
ListFilters ==
  [status : {Null, "", PAID, PENDING, FAILED},
   limit : {Undefined, 0, 1, 3, ListRows},
   offset : {Undefined, 0, 2, DefaultLimit}]

InitPure ==
  /\ ledger \in Ledgers
  /\ psp = <<>>
  /\ emitted = {}
  /\ procs = [p \in Procs |-> Idle]
  /\ last = [op |-> "none"]
  /\ ops = 0
  /\ webhookSecret = ProviderSecret

ReadOnly == UNCHANGED <<ledger, psp, emitted, procs, ops, webhookSecret>>

(* listPayments: the merchant of the API key, the query parameters, data |-> rows *)
ListPayments(merchantId, filters) ==
  /\ last' = [op |-> "list", merchantId |-> merchantId, filters |-> filters,
              data |-> getTransactions(ledger, merchantId, filters)]
  /\ ReadOnly

(* the statuses of the provider's vocabulary and other strings *)
StatusTable ==
  {"initiated", "pending", "processing", "authorized", "paid", "failed", "refunded",
   "partially_refunded", "voided"}

StatusStrings == StatusTable \cup {"", "captured", "PAID", "Paid", "constructor", "toString"}

MapStatus(moyasarStatus) ==
  /\ last' = [op |-> "mapStatus", moyasarStatus |-> moyasarStatus,
              status |-> mapStatus(moyasarStatus)]
  /\ ReadOnly

(* amounts with two decimal places: 0.01, 0.05, 0.50, 0.99, 1.00, 19.99, 50.25,      *)
(* 100.50, 1234.56                                                                   *)
TwoDecimalAmounts == {1, 5, 50, 99, 100, 1999, 5025, 10050, 123456}

(* the amount as buildPaymentPayload sends it, as mapMoyasarResponse reads it back,  *)
(* and as it would be sent again                                                     *)
ConvertAmount(amount) ==
  /\ last' = [op |-> "convert", amount |-> amount,
              minor |-> ToMinorUnits(amount),
              major |-> ToMajorUnits(ToMinorUnits(amount)),
              again |-> ToMinorUnits(ToMajorUnits(ToMinorUnits(amount)))]
  /\ ReadOnly

(* what the HTTP client rejects with: a response with a status outside 2xx, whose    *)
(* body may carry message, error and type, or no response at all                     *)
ErrorBodies ==
  {[message |-> "Invalid card", type |-> "invalid_request_error"],
   [message |-> "Payment not found"],
   [error |-> "unauthorized"],
   [type |-> "api_error"]}

AxiosErrors ==
  {[name |-> "AxiosError", code |-> "ERR_BAD_REQUEST", response |-> [data |-> d]] : d \in ErrorBodies}
    \cup {[name |-> "AxiosError", code |-> c, response |-> NullRow] :
             c \in {"ECONNREFUSED", "ECONNABORTED", "ENOTFOUND"}}

Field(r, name) == IF name \in DOMAIN r THEN r[name] ELSE ""

(* handleError: new Error(`Moyasar Error: ${message || error || 'Unknown Moyasar     *)
(* error'}`) when the error has a response, else the error itself                    *)
handleError(error) ==
  IF error.response # NullRow
  THEN LET moyasarError == error.response.data
           errorMessage == IF Field(moyasarError, "message") # "" THEN moyasarError.message
                           ELSE IF Field(moyasarError, "error") # "" THEN moyasarError.error
                           ELSE "Unknown Moyasar error"
       IN [name |-> "Error", message |-> <<"Moyasar Error: ", errorMessage>>]
  ELSE error

ConnectorOperations == {"createPayment", "getPayment", "refundPayment", "voidPayment"}

(* the catch of a connector operation: throw this.handleError(error) *)
ConnectorCatch(operation, error) ==
  /\ last' = [op |-> "connector", operation |-> operation, error |-> error,
              thrown |-> handleError(error)]
  /\ ReadOnly

(* Create requests with their payment source.  A card number is its four groups of  *)
(* digits; an absent number is the empty tuple, any other absent field is Null, an   *)
(* absent source is NullRow.                                                         *)
NoNumber == <<>>

CardNumbers == {<<"4111", "1111", "1111", "1111">>, <<"5500", "0000", "0000", "0004">>}

CardSources ==
  [type : {"creditcard", "mada"}, number : CardNumbers, name : {"A Holder", "B Holder"},
   month : {"12"}, year : {"2030"}, cvc : {"123", "456"}, token : {Null}]

TokenSource ==
  [type |-> "creditcard", number |-> NoNumber, name |-> Null, month |-> Null, year |-> Null,
   cvc |-> Null, token |-> "token_1"]

CreateRequests ==
  [amount : {10050}, currency : {SAR}, description : {Null, "Order 1"},
   callback_url : {Null}, metadata : {Null}, source : CardSources \cup {TokenSource, NullRow}]

(* buildPaymentPayload: what the connector sends to the provider *)
buildPaymentPayload(request) ==
  [amount |-> ToMinorUnits(request.amount), currency |-> request.currency,
   description |-> IF TruthyString(request.description) THEN request.description ELSE "Payment",
   callback_url |-> request.callback_url,
   source |-> IF request.source = NullRow THEN NullRow
              ELSE IF TruthyString(request.source.token)
                   THEN [type |-> "token", token |-> request.source.token]
              ELSE IF request.source.number # NoNumber
                   THEN [type |-> request.source.type, name |-> request.source.name,
                         number |-> request.source.number, month |-> request.source.month,
                         year |-> request.source.year, cvc |-> request.source.cvc]
              ELSE NullRow,
   metadata |-> request.metadata]

(* the source of the provider's answer to a payload: the card's brand, the number    *)
(* masked but for its last group, the holder's name, and a token if it issues one    *)
Brand(number) == IF number[1] = "4111" THEN "visa" ELSE "master"

Masked(number) == [i \in 1..Len(number) |-> IF i < Len(number) THEN "XXXX" ELSE number[i]]

ProviderSources(payload) ==
  IF payload.source = NullRow THEN {NullRow}
  ELSE IF payload.source.type = "token"
       THEN {[type |-> "token", company |-> "visa", name |-> "A Holder",
              number |-> Masked(<<"4111", "1111", "1111", "1111">>),
              token |-> payload.source.token]}
  ELSE {[type |-> payload.source.type, company |-> Brand(payload.source.number),
         name |-> payload.source.name, number |-> Masked(payload.source.number),
         token |-> t] : t \in {Null, "token_2"}}

(* mapMoyasarResponse with its source *)
CreateResponse(k, payment, source) == mapMoyasarResponse(k, payment) @@ [source |-> source]

(* pspResponse.source?.number?.slice(-4): the last group of the number *)
LastFour(source) ==
  IF source = NullRow THEN Null
  ELSE IF source.number = NoNumber THEN Null
  ELSE source.number[Len(source.number)]

(* a variant of the entity that keeps the cardholder's name as the description *)
TransactionEntity_Cardholder(merchantId, selectedPSP, request, pspResponse) ==
  NewTransaction(merchantId, selectedPSP, pspResponse, request.amount) @@
  [payment_method |-> IF request.source # NullRow THEN request.source.type ELSE "creditcard",
   card_token |-> IF pspResponse.source = NullRow THEN Null ELSE pspResponse.source.token,
   card_brand |-> IF pspResponse.source = NullRow THEN Null ELSE pspResponse.source.company,
   card_last_four |-> LastFour(pspResponse.source),
   description |-> IF request.source # NullRow THEN request.source.name ELSE request.description,
   metadata |-> request.metadata,
   callback_url |-> request.callback_url]

(* createPayment lines 44-57 with every column of repository.create *)
TransactionEntity(merchantId, selectedPSP, request, pspResponse) ==
  NewTransaction(merchantId, selectedPSP, pspResponse, request.amount) @@
  [payment_method |-> IF request.source # NullRow THEN request.source.type ELSE "creditcard",
   card_token |-> IF pspResponse.source = NullRow THEN Null ELSE pspResponse.source.token,
   card_brand |-> IF pspResponse.source = NullRow THEN Null ELSE pspResponse.source.company,
   card_last_four |-> LastFour(pspResponse.source),
   description |-> request.description,
   metadata |-> request.metadata,
   callback_url |-> request.callback_url]

(* createPayment on a request with its source, the provider accepting the payment:   *)
(* the payload sent and the row saved                                                *)
CreateEntity(merchantId, request) ==
  LET selectedPSP == selectPSP([amount |-> request.amount,
                                source_type |-> IF request.source = NullRow THEN Null
                                                ELSE request.source.type])
      payload == buildPaymentPayload(request)
      payment == [status |-> "paid", amount |-> payload.amount, refunded |-> 0]
  IN \E source \in ProviderSources(payload) :
       LET pspResponse == CreateResponse(Len(ledger) + 1, payment, source)
       IN /\ last' = [op |-> "entity", merchantId |-> merchantId, request |-> request,
                      payload |-> payload, pspResponse |-> pspResponse,
                      row |-> Insert(ledger, TransactionEntity(merchantId, selectedPSP, request,
                                                               pspResponse))[Len(ledger) + 1]]
          /\ ReadOnly

NextPure ==
  \/ \E m \in Merchants, f \in ListFilters : ListPayments(m, f)
  \/ \E m \in Merchants, r \in CreateRequests : CreateEntity(m, r)
  \/ \E o \in ConnectorOperations, e \in AxiosErrors : ConnectorCatch(o, e)
  \/ \E a \in TwoDecimalAmounts : ConvertAmount(a)
  \/ \E st \in StatusStrings : MapStatus(st)

SpecPure == InitPure /\ [][NextPure]_vars

----------------------------------------------------------------------------
(* Properties *)

Terminal == {VOIDED, FAILED, REFUNDED}

(* the place of a status on PENDING -> PROCESSING -> AUTHORIZED -> PAID ->            *)
(* PARTIALLY_REFUNDED -> REFUNDED                                                     *)
Rank(s) ==
  CASE s = PENDING -> 0
    [] s = PROCESSING -> 1
    [] s = AUTHORIZED -> 2
    [] s = PAID -> 3
    [] s = PARTIALLY_REFUNDED -> 4
    [] s = REFUNDED -> 5
    [] OTHER -> 6

(* t can follow s on the state machine, in one or more steps *)
Follows(s, t) ==
  \/ t \in {FAILED, VOIDED} /\ s \notin Terminal
  \/ s \notin {FAILED, VOIDED} /\ t \notin {FAILED, VOIDED} /\ Rank(s) < Rank(t)

(* this step takes a new request; Request is that request after its first step *)
Began == ops' = ops + 1

Request ==
  IF procs' = procs THEN last' ELSE procs'[CHOOSE p \in Procs : procs'[p] # procs[p]]

(* the row the request names, as it is before the step *)
RequestRow == FindById(ledger, Request.id)

(* C1: once a row's status is VOIDED, FAILED or REFUNDED, no step of a poll, a refund *)
(* or a webhook handler changes it.                                                  *)
C1_TerminalIsFinal ==
  [][\A n \in 1..Len(ledger) :
       ledger[n].status \in Terminal => ledger'[n].status = ledger[n].status]_vars

(* C2: every change of a row's status goes forward on the state machine; none moves  *)
(* a row back to an earlier status.                                                  *)
C2_Monotonic ==
  [][\A n \in 1..Len(ledger) :
       ledger'[n].status # ledger[n].status
         => Follows(ledger[n].status, ledger'[n].status)]_vars

(* C3: a refund request for a row whose status is not PAID ends at once with the     *)
(* invalid-state error, without a call to the provider and with the ledger as it was *)
C3_RefundGuard ==
  [][(Began /\ Request.op = "refund" /\ RequestRow # NullRow /\ RequestRow.status # PAID)
       => /\ Request.pc = "done" /\ Request.result = "InvalidState" /\ ~Request.called
          /\ ledger' = ledger /\ psp' = psp /\ emitted' = emitted]_vars

(* a refund of a partly refunded row was refused *)
C3_Witness ==
  last.op = "refund" /\ last.seen = PARTIALLY_REFUNDED /\ last.result = "InvalidState"

(* what the provider has refunded so far of the payment behind a row, in major units *)
RefundedSoFar(row) == ToMajorUnits(psp[PspIndex(row.psp_transaction_id)].refunded)

(* process p ends its refund request with this step, by the save *)
RefundSaved(p) == procs[p].pc = "ref_save" /\ procs'[p].pc = "idle"

(* C4, as claimed: after a first partial refund, a further refund that brings the    *)
(* refunded total up to the original amount is accepted, not refused as invalid.     *)
C4_SecondRefundAccepted ==
  [][(/\ Began /\ Request.op = "refund" /\ RequestRow # NullRow
      /\ RequestRow.status = PARTIALLY_REFUNDED
      /\ Request.amt > 0
      /\ RefundedSoFar(RequestRow) + Request.amt = RequestRow.amount)
       => Request.result # "InvalidState"]_vars

(* C4, amended: a refund of part of the amount of a PAID row leaves it               *)
(* PARTIALLY_REFUNDED; every further refund request for it, while it is              *)
(* PARTIALLY_REFUNDED or REFUNDED, ends at once with the invalid-state error,        *)
(* whatever its amount, without a call to the provider and with the row as it was.   *)
C4_PartialThenRefused ==
  [][/\ \A p \in Procs :
          (RefundSaved(p) /\ procs[p].amt > 0 /\ procs[p].amt < procs[p].tx.amount)
            => FindById(ledger', procs[p].id).status = PARTIALLY_REFUNDED
     /\ (/\ Began /\ Request.op = "refund" /\ RequestRow # NullRow
         /\ RequestRow.status \in {PARTIALLY_REFUNDED, REFUNDED})
          => /\ Request.pc = "done" /\ Request.result = "InvalidState" /\ ~Request.called
             /\ ledger' = ledger /\ psp' = psp]_vars

(* the second half of a refund in two halves was refused: the provider has refunded  *)
(* one half, the row is PARTIALLY_REFUNDED and the request for the other half ended  *)
(* with the invalid-state error                                                      *)
C4_Witness ==
  /\ last.op = "refund" /\ last.amt = 5025 /\ last.result = "InvalidState"
  /\ last.seen = PARTIALLY_REFUNDED
  /\ \E n \in 1..Len(ledger) :
       /\ ledger[n].id = last.id /\ ledger[n].status = PARTIALLY_REFUNDED
       /\ RefundedSoFar(ledger[n]) = 5025

(* C5: the save that ends an accepted refund writes REFUNDED when the request has no *)
(* amount or an amount that is at least the row's, PARTIALLY_REFUNDED when the       *)
(* amount is above 0 and below the row's.                                            *)
C5_RefundClassification ==
  [][\A p \in Procs :
       RefundSaved(p) =>
         LET amt == procs[p].amt
             original == FindById(ledger, procs[p].id).amount
             status == FindById(ledger', procs[p].id).status
         IN /\ (amt = Undefined \/ amt >= original) => status = REFUNDED
            /\ (amt > 0 /\ amt < original) => status = PARTIALLY_REFUNDED]_vars

(* a refund of the whole amount, asked by its amount, was saved as REFUNDED *)
C5_Witness ==
  /\ last.op = "refund" /\ last.result = "ok" /\ last.amt = 10050
  /\ FindById(ledger, last.id).status = REFUNDED

(* process p writes its entity to the ledger with this step *)
Writes(p) ==
  /\ procs[p].pc \in {"get_save", "wh_save", "ref_save"} /\ procs'[p] # procs[p]
  /\ last'.error # "save"

(* the status p's write is computed from is no longer the row's: another writer has  *)
(* committed in between                                                              *)
Stale(p) == FindById(ledger, procs[p].tx.id).status # procs[p].seen

(* polls and webhook handlers are the only writers about: no refund runs or has just ended *)
NoRefundAbout == last.op # "refund" /\ \A q \in Procs : procs[q].op # "refund"

(* C6: a write of a poll or of a webhook handler that was computed from a read the   *)
(* row has moved on from (the other of the two has committed in between) is refused: *)
(* it does not replace the status committed in between.                              *)
C6_NoLostUpdate ==
  [][\A p \in Procs :
       (Writes(p) /\ procs[p].op \in {"get", "webhook"} /\ Stale(p) /\ NoRefundAbout)
         => FindById(ledger', procs[p].tx.id).status
              = FindById(ledger, procs[p].tx.id).status]_vars

(* process p is past the PAID guard of a full refund of the row with this id *)
PastGuard(p, id) ==
  /\ procs[p].op = "refund" /\ procs[p].id = id /\ procs[p].amt = Undefined
  /\ procs[p].pc \in {"ref_call", "ref_save"}

(* C7: of two full refunds of the same row at most one passes the PAID guard and     *)
(* goes on to the connector's refund.                                                *)
C7_OneRefundPastGuard ==
  \A p, q \in Procs, n \in 1..Len(ledger) :
    (PastGuard(p, ledger[n].id) /\ PastGuard(q, ledger[n].id)) => p = q

(* a handler run on its own on ledger L for event e: its findOne, then its save *)
Deliver(L, e) ==
  LET transaction == CHOOSE t \in FindByPspId(L, e.id) : TRUE
  IN IF transaction = NullRow THEN L ELSE Save(L, Handle(transaction, e))

Tracked(L, e) == \E n \in 1..Len(L) : L[n].psp_transaction_id = e.id

(* delivering e to L once more changes nothing, and what one delivery changed is the *)
(* status, PAID, of the one row of e's payment                                       *)
PaidDeliveredTwice(L, e) ==
  LET once == Deliver(L, e)
      twice == Deliver(once, e)
  IN /\ twice = once
     /\ Len(once) = Len(L)
     /\ \A n \in 1..Len(L) :
          IF L[n].psp_transaction_id = e.id
          THEN once[n] = [L[n] EXCEPT !.status = PAID]
          ELSE once[n] = L[n]
     /\ Tracked(L, e) => Cardinality({n \in 1..Len(once) :
                                        once[n].psp_transaction_id = e.id}) = 1

(* C8: delivering a payment_paid event again leaves the ledger as one delivery left  *)
(* it: the row of the payment is PAID, there is one row for it and no other row is   *)
(* changed; so it is for the handlers run one after the other on any ledger the      *)
(* program reaches, and each save of a payment_paid handler writes just that.        *)
C8_PaidIdempotent ==
  [][/\ \A e \in emitted' : e.type = "payment_paid" => PaidDeliveredTwice(ledger', e)
     /\ \A p \in Procs :
          (Writes(p) /\ procs[p].op = "webhook" /\ procs[p].ev.type = "payment_paid")
            => /\ Len(ledger') = Len(ledger)
               /\ \A n \in 1..Len(ledger) :
                    IF ledger[n].id = procs[p].tx.id
                    THEN ledger'[n].status = PAID
                    ELSE ledger'[n] = ledger[n]]_vars

(* a payment_paid event was delivered twice for a tracked payment: one delivery has  *)
(* been acknowledged, the other has found the row PAID and is about to save          *)
C8_Witness ==
  /\ last.op = "webhook" /\ last.ev.type = "payment_paid" /\ last.result = "200"
  /\ last.seen # Null
  /\ \E p \in Procs :
       /\ procs[p].pc = "wh_save" /\ procs[p].ev = last.ev /\ procs[p].seen = PAID
       /\ Tracked(ledger, last.ev)

(* C9: the ledger after two provider events of a payment were delivered does not     *)
(* depend on the order of the two deliveries.                                        *)
C9_OrderIndependent ==
  \A e1, e2 \in emitted :
    e1.id = e2.id => Deliver(Deliver(ledger, e1), e2) = Deliver(Deliver(ledger, e2), e1)

(* C10: with a webhook secret configured, a delivery whose signature header is not   *)
(* the HMAC-SHA256 of its body under the secret is answered 401: no handler runs for *)
(* it and nothing is forwarded.                                                      *)
C10_TamperedRejected ==
  webhookSecret # "" =>
    /\ \A p \in Procs : procs[p].op = "webhook" => procs[p].sig # "tampered"
    /\ (last.op = "webhook" /\ last.sig = "tampered")
         => (last.result = "401" /\ last.seen = Null /\ last.fwd = NullRow)

(* C11: with a webhook secret configured, a delivery without a signature header is   *)
(* answered 401: no handler runs for it, so it reads and writes no row.              *)
C11_MissingSignatureRejected ==
  webhookSecret # "" =>
    /\ \A p \in Procs : procs[p].op = "webhook" => procs[p].sig # "absent"
    /\ (last.op = "webhook" /\ last.sig = "absent")
         => (last.result = "401" /\ last.seen = Null)

(* C12: a delivery that passed the signature check, for a payment that has no row,   *)
(* is acknowledged with 200 by its first step (its lookup having returned): no       *)
(* handler goes on to a save, the ledger is as it was, with no row more, and nothing *)
(* is posted to a merchant.                                                          *)
C12_UnknownAcknowledged ==
  [][(/\ Began /\ Request.op = "webhook" /\ Request.result # "401"
      /\ Request.error # "findOne" /\ ~Tracked(ledger, Request.ev))
       => /\ Request.pc = "done" /\ Request.result = "200" /\ Request.error = Null
          /\ Request.fwd = NullRow
          /\ ledger' = ledger]_vars

(* a payment_paid delivery came before the row of its payment was saved: the payment *)
(* is the provider's, the ledger has no row for it, and the delivery was acknowledged *)
C12_Witness ==
  /\ last.op = "webhook" /\ last.ev.type = "payment_paid" /\ last.result = "200"
  /\ last.seen = Null /\ last.fwd = NullRow
  /\ PspKnows(last.ev.id) /\ ~Tracked(ledger, last.ev)

(* C13: a delivery that passed the signature check and was routed to a handler is    *)
(* answered 200, whether the handler's lookup and save went well or threw.           *)
C13_AlwaysAcknowledged ==
  (last.op = "webhook" /\ last.result # "401") => last.result = "200"

(* the handler of p ends with this step, its save having gone through *)
HandlerSaved(p) ==
  procs[p].pc = "wh_save" /\ procs'[p] # procs[p] /\ last'.error # "save"

(* C14: when the forward to the merchant fails after the handler's save (the lookup  *)
(* of the merchant, the post or its timeout), the delivery is still answered 200 and *)
(* the status the handler saved is the row's.                                        *)
C14_ForwardFailureSwallowed ==
  [][\A p \in Procs :
       (HandlerSaved(p) /\ last'.fwd = ForwardFailed)
         => /\ last'.result = "200" /\ last'.error = Null
            /\ FindById(ledger', procs[p].tx.id).status = procs[p].tx.status]_vars

(* a payment_paid delivery for a PENDING row of a merchant with an endpoint: the     *)
(* forward failed, the delivery was acknowledged and the row is PAID                 *)
C14_Witness ==
  /\ last.op = "webhook" /\ last.ev.type = "payment_paid" /\ last.seen = PENDING
  /\ last.fwd = ForwardFailed /\ last.result = "200"
  /\ \E n \in 1..Len(ledger) :
       /\ ledger[n].psp_transaction_id = last.ev.id /\ ledger[n].status = PAID
       /\ MerchantWebhookUrl(ledger[n].merchant_id) # Null

(* process p ends its create request with this step, by the save *)
CreateSaved(p) == procs[p].pc = "create_save" /\ procs'[p] # procs[p]

(* C15: the ledger gets a row only by the save of a create request whose connector   *)
(* call has returned a payment; the step that calls the provider writes no row, and  *)
(* when that call fails the request ends there, the ledger as it was; so every row   *)
(* is the row of a payment the provider has.                                         *)
C15_NoDraftRows ==
  [][/\ Len(ledger') # Len(ledger)
          => \E p \in Procs :
               /\ CreateSaved(p) /\ procs[p].called /\ PspKnows(procs[p].resp.id)
               /\ Len(ledger') = Len(ledger) + 1
     /\ (Began /\ Request.op = "create")
          => /\ ledger' = ledger
             /\ Request.result = "ProviderError" => (Request.pc = "done" /\ psp' = psp)
     /\ \A n \in 1..Len(ledger') :
          \E k \in 1..Len(psp') : ledger'[n].psp_transaction_id = PspId(k)]_vars

(* a create request ended with the provider's error and there is no row *)
C15_Witness ==
  last.op = "create" /\ last.result = "ProviderError" /\ last.called /\ ledger = <<>>

(* C16: the save of a create request adds one row and changes no other: its          *)
(* merchant_id is the caller's, its psp_transaction_id the id the provider gave, its *)
(* status the mapping of the status the provider returned, its amount the amount of  *)
(* the request in major units (not the provider's integer of halalas); the response  *)
(* names that row.                                                                   *)
C16_CreateRow ==
  [][/\ (Began /\ Request.op = "create" /\ Request.pc = "create_save")
          => /\ Len(psp') = Len(psp) + 1
             /\ Request.resp.id = PspId(Len(psp'))
             /\ Request.resp.status = mapStatus(psp'[Len(psp')].status)
     /\ \A p \in Procs :
          CreateSaved(p) =>
            LET row == ledger'[Len(ledger')]
            IN /\ Len(ledger') = Len(ledger) + 1
               /\ \A n \in 1..Len(ledger) : ledger'[n] = ledger[n] /\ ledger[n].id # row.id
               /\ row.merchant_id = procs[p].merchant
               /\ row.psp_transaction_id = procs[p].resp.id
               /\ row.status = procs[p].resp.status
               /\ row.amount = procs[p].amt /\ row.amount # ToMinorUnits(procs[p].amt)
               /\ last'.result = "ok" /\ last'.id = row.id]_vars

(* scenario A: 100.50 created with the provider answering "paid" is a row of 100.50, PAID *)
C16_Witness ==
  /\ last.op = "create" /\ last.result = "ok" /\ last.amt = 10050
  /\ Len(ledger) = 1
  /\ ledger[1].id = last.id /\ ledger[1].merchant_id = last.merchant
  /\ ledger[1].amount = 10050 /\ ledger[1].status = PAID
  /\ psp[1].amount = 1005000

(* the id fields of a response *)
IdFields(resp) == {resp[f] : f \in DOMAIN resp \cap {"id", "payment_id"}}

(* C17: the response of a create, get or refund request that went well names the     *)
(* row's own id, and none of its id fields is the row's psp_transaction_id.          *)
C17_NoProviderIds ==
  (last.op \in {"create", "get", "refund"} /\ last.result = "ok")
    => \A n \in 1..Len(ledger) :
         ledger[n].id = last.id
           => /\ ledger[n].id \in IdFields(last.resp)
              /\ ledger[n].psp_transaction_id \notin IdFields(last.resp)

(* C18: when getPayment returns, the row's status is the status the provider reported *)
(* in that poll; so it is also when a webhook handler for the payment has run between *)
(* the poll's read of the row and its comparison of the polled status with the status *)
(* it read, on any ledger and with any event the program reaches.                     *)
C18_PollReconciles ==
  \A n \in 1..Len(ledger), e \in emitted :
    PspKnows(ledger[n].psp_transaction_id) =>
      LET transaction == ledger[n]
          k == PspIndex(transaction.psp_transaction_id)
          pspResponse == mapMoyasarResponse(k, psp[k])
          after == Reconcile(Deliver(ledger, e), transaction, pspResponse)
      IN /\ FindById(after, transaction.id).status = pspResponse.status
         /\ PaymentView(pspResponse, transaction.id).id = transaction.id

(* the ledger has no row with this id *)
NoRow(L, id) == \A n \in 1..Len(L) : L[n].id # id

(* C19: a get or refund request for an id that no row has ends at once with the      *)
(* not-found error, without a call to the provider and with the ledger as it was.    *)
C19_NotFound ==
  [][(Began /\ Request.op \in {"get", "refund"} /\ NoRow(ledger, Request.id))
       => /\ Request.pc = "done" /\ Request.result = "NotFound" /\ ~Request.called
          /\ ledger' = ledger /\ psp' = psp /\ emitted' = emitted]_vars

(* a refund was asked for an id no row has, while the ledger has a PAID row *)
C19_Witness ==
  /\ last.op = "refund" /\ last.result = "NotFound" /\ ~last.called
  /\ NoRow(ledger, last.id)
  /\ \E n \in 1..Len(ledger) : ledger[n].status = PAID

(* a rule applies to a request: it is enabled and each of its conditions holds *)
Matches(rule, request) ==
  /\ rule.enabled
  /\ \A c \in rule.conditions : c.operator = "equals" /\ request[c.field] = c.value

(* the provider the rules give: the target of the first rule that applies (of two    *)
(* that apply, the one of lower priority number), the default when none applies      *)
RuledPSP(rules, request) ==
  LET applying == {r \in rules : Matches(r, request)}
  IN IF applying = {} THEN MOYASAR
     ELSE (CHOOSE r \in applying : \A q \in applying : r.priority <= q.priority).target_psp

(* C20: whatever the routing_rules table holds, the provider a create request is     *)
(* routed to is the target_psp of the first enabled rule whose conditions all match  *)
(* the request, and the default provider only when no rule matches.                  *)
C20_RulesDecide ==
  \A rules \in RoutingTables : \A p \in Procs :
    procs[p].pc = "create_save"
      => procs[p].tx.psp_provider
           = RuledPSP(rules, [amount |-> procs[p].amt, card_type |-> "creditcard",
                              currency |-> SAR])

(* the row the request names is recorded for a provider other than the one with a    *)
(* connector                                                                         *)
NoConnector == RequestRow # NullRow /\ RequestRow.psp_provider # MOYASAR

Wanted(merchantId, filters) ==
  {n \in DOMAIN ledger : /\ ledger[n].merchant_id = merchantId
                         /\ filters.status \in PaymentStatus => ledger[n].status = filters.status}

(* how many wanted rows are newer than row n *)
Newer(n, merchantId, filters) == Cardinality({k \in Wanted(merchantId, filters) : k > n})

(* C22: every row a listing returns is a row of the asking merchant and, when a      *)
(* status is asked for, of that status; the rows returned are, newest first and each *)
(* once, exactly the wanted rows that come after the first `offset` wanted rows and  *)
(* within the next `limit`, where the limit is 50 when none is supplied.             *)
C22_TenantIsolation ==
  last.op = "list" =>
    LET m == last.merchantId
        f == last.filters
        limit == IF f.limit \in {Undefined, 0} THEN 50 ELSE f.limit
        offset == IF f.offset = Undefined THEN 0 ELSE f.offset
        page == {n \in Wanted(m, f) : Newer(n, m, f) >= offset /\ Newer(n, m, f) < offset + limit}
    IN /\ \A i \in DOMAIN last.data :
            /\ last.data[i].merchant_id = m
            /\ f.status \in PaymentStatus => last.data[i].status = f.status
       /\ Len(last.data) = Cardinality(page)
       /\ \A i \in DOMAIN last.data :
            \E n \in page : last.data[i] = ledger[n] /\ Newer(n, m, f) = offset + i - 1

(* a listing with a status and no limit, of a merchant with more than 50 rows of     *)
(* that status beside rows of another merchant and of other statuses, returned 50    *)
C22_Witness ==
  /\ last.op = "list" /\ last.filters.limit = Undefined /\ last.filters.status = PAID
  /\ Cardinality(Wanted(last.merchantId, last.filters)) > 50
  /\ Len(last.data) = 50
  /\ \E n \in DOMAIN ledger : ledger[n].merchant_id # last.merchantId
  /\ \E n \in DOMAIN ledger : ledger[n].merchant_id = last.merchantId /\ ledger[n].status # PAID

(* C23: mapStatus maps each of the nine provider statuses to its canonical status    *)
(* and every other string to FAILED: the result is always a PaymentStatus and is     *)
(* PAID for "paid" only.                                                             *)
C23_MappingTotal ==
  last.op = "mapStatus" =>
    LET st == last.moyasarStatus
    IN /\ last.status \in PaymentStatus
       /\ st \in {"initiated", "pending"} => last.status = PENDING
       /\ st = "processing" => last.status = PROCESSING
       /\ st = "authorized" => last.status = AUTHORIZED
       /\ st = "paid" => last.status = PAID
       /\ st = "failed" => last.status = FAILED
       /\ st = "refunded" => last.status = REFUNDED
       /\ st = "partially_refunded" => last.status = PARTIALLY_REFUNDED
       /\ st = "voided" => last.status = VOIDED
       /\ st \notin {"initiated", "pending", "processing", "authorized", "paid", "failed",
                     "refunded", "partially_refunded", "voided"} => last.status = FAILED

C25_OneErrorKind ==
  last.op = "connector" =>
    /\ last.thrown.name = "Error"
    /\ last.thrown.message[1] = "Moyasar Error: "
    /\ last.thrown # last.error

(* two create requests that differ at most in the raw card fields number, name,      *)
(* month, year and cvc of their source                                               *)
SameButRawFields(r1, r2) ==
  /\ r1.amount = r2.amount /\ r1.currency = r2.currency /\ r1.description = r2.description
  /\ r1.callback_url = r2.callback_url /\ r1.metadata = r2.metadata
  /\ (r1.source = NullRow) = (r2.source = NullRow)
  /\ r1.source # NullRow => (r1.source.type = r2.source.type /\ r1.source.token = r2.source.token)

(* a row without the columns the provider's answer fills in *)
WithoutProviderCard(row) ==
  [row EXCEPT !.card_token = Null, !.card_brand = Null, !.card_last_four = Null]

(* C26: the row createPayment writes does not depend on the raw card fields of the   *)
(* request: a request that differs only in number, name, month, year and cvc, which  *)
(* the provider accepts alike, gives the same row apart from the token, brand and    *)
(* last four digits the provider returns; the raw fields of a card source without    *)
(* token are in the payload sent to the provider.                                    *)
C26_RawCardNotPersisted ==
  last.op = "entity" =>
    /\ \A r2 \in CreateRequests :
         SameButRawFields(last.request, r2) =>
           \A source \in ProviderSources(buildPaymentPayload(r2)) :
             LET p2 == [last.pspResponse EXCEPT !.source = source]
                 row2 == [TransactionEntity(last.merchantId, MOYASAR, r2, p2) EXCEPT !.id = last.row.id]
             IN WithoutProviderCard(row2) = WithoutProviderCard(last.row)
    /\ (last.request.source # NullRow /\ last.request.source.token = Null)
         => \A f \in {"number", "name", "month", "year", "cvc"} :
              last.payload.source[f] = last.request.source[f]

(* a row was written for a card request of which other requests differ in number,   *)
(* holder and cvc; the payload carried the number and the cvc, the row carries the   *)
(* last four digits the provider returned                                            *)
C26_Witness ==
  /\ last.op = "entity" /\ last.request.source # NullRow
  /\ last.request.source.number = <<"4111", "1111", "1111", "1111">>
  /\ last.payload.source.number = last.request.source.number
  /\ last.payload.source.cvc = "123"
  /\ last.row.card_last_four = "1111" /\ last.row.card_brand = "visa"
  /\ \E r2 \in CreateRequests :
       /\ SameButRawFields(last.request, r2)
       /\ r2.source.number # last.request.source.number
       /\ r2.source.cvc # last.request.source.cvc
       /\ r2.source.name # last.request.source.name

(* the request process p is handling takes a step *)
Moves(p) == procs[p].pc # "idle" /\ procs'[p] # procs[p]

(* C27: a create, get or refund request calls the provider at most once: once its    *)
(* call to the connector has been made, the only step the request takes is the save  *)
(* of its row, which ends it and calls no provider; and a request whose call failed  *)
(* has ended with that failure at the step of the call, the provider's payments and  *)
(* the ledger as they were.                                                          *)
C27_NoRetry ==
  [][/\ \A p \in Procs :
          (procs[p].called /\ Moves(p))
            => /\ procs[p].pc \in {"create_save", "get_save", "ref_save"}
               /\ procs'[p] = Idle
               /\ psp' = psp /\ emitted' = emitted
     /\ (last' # last /\ last'.result = "ProviderError")
          => /\ last'.pc = "done" /\ last'.called
             /\ \A p \in Procs : ~procs[p].called => procs'[p] \in {procs[p], Idle}
             /\ psp' = psp /\ emitted' = emitted /\ ledger' = ledger]_vars

(* a refund whose call to the provider failed has ended, the provider knowing of no  *)
(* refund and the row still PAID                                                     *)
C27_Witness ==
  /\ last.op = "refund" /\ last.result = "ProviderError" /\ last.called
  /\ FindById(ledger, last.id) # NullRow /\ FindById(ledger, last.id).status = PAID
  /\ \A k \in 1..Len(psp) : psp[k].refunded = 0

(* a create request holds the provider's answer for its k-th payment, the save ahead *)
AwaitsSave(k) == \E p \in Procs : procs[p].pc = "create_save" /\ procs[p].resp.id = PspId(k)

(* the ledger has a row for the provider's k-th payment *)
Recorded(k) == \E n \in 1..Len(ledger) : ledger[n].psp_transaction_id = PspId(k)

(* the provider's answer for its k-th payment is held by a request and no row of the *)
(* payment is in the ledger                                                          *)
Unsaved(k) == AwaitsSave(k) /\ ~Recorded(k)

(* C28: a create request whose provider call returned a payment goes on to save the  *)
(* row of that payment: the only step it takes from there is the save, which writes  *)
(* the row with the provider's id and ends the request with success; and whenever a  *)
(* provider's answer is held unsaved, a time comes when none is, which by the first  *)
(* part is when the rows have been written.                                          *)
C28_SaveFollowsSuccess ==
  /\ [][\A p \in Procs :
          (procs[p].pc = "create_save" /\ Moves(p))
            => /\ Len(ledger') = Len(ledger) + 1
               /\ ledger'[Len(ledger')].psp_transaction_id = procs[p].resp.id
               /\ last'.op = "create" /\ last'.result = "ok"]_vars
  /\ (\E k \in 1..MaxRows : Unsaved(k)) ~> (\A k \in 1..MaxRows : ~Unsaved(k))

(* the provider's answer for a payment was awaiting its save while no row of the     *)
(* payment was in the ledger                                                         *)
C28_Witness == \E k \in 1..Len(psp) : Unsaved(k) /\ psp[k].status = "paid"

C30_UnhandledAcknowledged ==
  [][(/\ Began /\ Request.op = "webhook" /\ Request.result # "401"
      /\ Request.ev.type \notin {"payment_paid", "payment_failed", "payment_refunded"})
       => /\ Request.pc = "done" /\ Request.result = "200" /\ Request.error = Null
          /\ Request.seen = Null /\ Request.tx = NullRow /\ Request.fwd = NullRow
          /\ ledger' = ledger]_vars

(* a payment_voided delivery for a payment that has a row, of a merchant with a      *)
(* webhook, was acknowledged; the row has the status it was created with             *)
C30_Witness ==
  /\ last.op = "webhook" /\ last.ev.type = "payment_voided" /\ last.result = "200"
  /\ last.sig = "authentic"
  /\ \E n \in 1..Len(ledger) :
       /\ ledger[n].psp_transaction_id = last.ev.id
       /\ ledger[n].status = PENDING
       /\ MerchantWebhookUrl(ledger[n].merchant_id) # Null

(* the row of the payment p's delivery is about, after the step *)
HandledRow(p) == FindById(ledger', procs[p].tx.id)

(* C31: when the handler of a payment_refunded delivery for a payment with a row     *)
(* saves, the row's status is REFUNDED if the event's refunded amount, in halalas,   *)
(* is at least a hundred times the row's amount, and PARTIALLY_REFUNDED if it is     *)
(* more than nothing and less than that.                                             *)
C31_WebhookRefundClassification ==
  [][\A p \in Procs :
       (HandlerSaved(p) /\ procs[p].ev.type = "payment_refunded")
         => /\ HandledRow(p) # NullRow
            /\ HandledRow(p).psp_transaction_id = procs[p].ev.id
            /\ procs[p].ev.refunded_amount >= HandledRow(p).amount * 100
                 => HandledRow(p).status = REFUNDED
            /\ (procs[p].ev.refunded_amount > 0
                /\ procs[p].ev.refunded_amount < HandledRow(p).amount * 100)
                 => HandledRow(p).status = PARTIALLY_REFUNDED]_vars

(* the event of a refund of 50.25 of 100.50 (5025 halalas) was handled for the row   *)
(* of its payment, which is PARTIALLY_REFUNDED; the handler read it as PAID          *)
C31_Witness ==
  /\ last.op = "webhook" /\ last.ev.type = "payment_refunded" /\ last.result = "200"
  /\ last.ev.refunded_amount = 502500 /\ last.seen = PAID
  /\ \E n \in 1..Len(ledger) :
       /\ ledger[n].psp_transaction_id = last.ev.id /\ ledger[n].amount = 10050
       /\ ledger[n].status = PARTIALLY_REFUNDED

(* the request that ends with this step is a delivery for which an envelope was      *)
(* posted to a merchant                                                              *)
Forwarded == last' # last /\ last'.op = "webhook" /\ last'.fwd \notin {NullRow, ForwardFailed}

(* C32: an envelope is posted to a merchant only by the step in which the handler of *)
(* a delivery saves the row of the delivery's payment and the delivery ends (so once *)
(* per delivery, and never for a delivery that was rejected, had no handler, found   *)
(* no row or whose save failed), only if the row's merchant has a webhook_url, and   *)
(* it carries the row's own id and the status that save has written.                 *)
C32_ForwardAfterSave ==
  [][/\ Forwarded
          => \E p \in Procs :
               /\ HandlerSaved(p) /\ procs'[p] = Idle
               /\ last'.ev = procs[p].ev /\ last'.result = "200"
               /\ HandledRow(p) # NullRow
               /\ HandledRow(p).psp_transaction_id = last'.ev.id
               /\ MerchantWebhookUrl(HandledRow(p).merchant_id) # Null
               /\ last'.fwd.transaction_id = HandledRow(p).id
               /\ last'.fwd.transaction_id # last'.ev.id
               /\ last'.fwd.status = HandledRow(p).status
               /\ HandledRow(p).status = procs[p].tx.status
     /\ (last' # last /\ last'.op = "webhook" /\ ~\E p \in Procs : HandlerSaved(p))
          => last'.fwd = NullRow]_vars

(* a payment_paid delivery for a PENDING row of the merchant with a webhook_url: the *)
(* row is PAID and the envelope carries the row's id and PAID                        *)
C32_Witness ==
  /\ last.op = "webhook" /\ last.ev.type = "payment_paid" /\ last.seen = PENDING
  /\ last.result = "200" /\ last.fwd \notin {NullRow, ForwardFailed}
  /\ last.fwd.event = "payment.paid" /\ last.fwd.status = PAID
  /\ \E n \in 1..Len(ledger) :
       /\ ledger[n].id = last.fwd.transaction_id /\ ledger[n].status = PAID
       /\ ledger[n].merchant_id = "m1"

(* C33: a get or refund request for a row of another merchant than the one asking    *)
(* ends at once, with no data of the row, no provider call and the ledger as it was. *)
(* The controllers hand the service the id of the path only, so a request is the     *)
(* same whichever merchant's API key it came with: the asking merchant is any        *)
(* merchant A.                                                                       *)
C33_OwnTransactionsOnly ==
  [][(Began /\ Request.op \in {"get", "refund"} /\ RequestRow # NullRow)
       => \A A \in Merchants :
            A # RequestRow.merchant_id
              => /\ Request.pc = "done" /\ ~Request.called
                 /\ Request.resp = NullRow /\ Request.tx = NullRow
                 /\ ledger' = ledger]_vars

(* C34: a get or refund request writes nothing before its save: the ledger is the    *)
(* same after the step that looks the row up and after the step of the connector     *)
(* call; a refund whose call the provider did not carry out, like every get or       *)
(* refund that ends with the provider's failure, ends at that step as a failure, so  *)
(* every row, the transaction's included, is as it was before the call.              *)
C34_FailureLeavesLedger ==
  [][/\ (Began /\ Request.op \in {"get", "refund"}) => ledger' = ledger
     /\ \A p \in Procs :
          (Moves(p) /\ procs[p].pc \in {"get_poll", "ref_call"})
            => /\ ledger' = ledger
               /\ (procs[p].pc = "ref_call" /\ psp' = psp)
                    => /\ procs'[p] = Idle
                       /\ last'.op = "refund" /\ last'.id = procs[p].id
                       /\ last'.result = "ProviderError"
     /\ (last' # last /\ last'.op \in {"get", "refund"} /\ last'.result = "ProviderError")
          => /\ ledger' = ledger
             /\ \E p \in Procs : procs[p].pc \in {"get_poll", "ref_call"} /\ procs'[p] = Idle]_vars

(* a refund failed at the provider and a second refund of the same transaction, its  *)
(* row still PAID, has passed the guard and is about to call the provider            *)
C34_Witness ==
  /\ last.op = "refund" /\ last.result = "ProviderError" /\ last.called
  /\ \E p \in Procs :
       /\ procs[p].op = "refund" /\ procs[p].pc = "ref_call" /\ procs[p].id = last.id
       /\ procs[p].seen = PAID
  /\ FindById(ledger, last.id).status = PAID

(* the columns the spec says are fixed once the row is created *)
SameIdentity(before, after) ==
  /\ after.id = before.id
  /\ after.merchant_id = before.merchant_id
  /\ after.psp_provider = before.psp_provider
  /\ after.psp_transaction_id = before.psp_transaction_id
  /\ after.amount = before.amount
  /\ after.currency = before.currency

(* C35: no step deletes a ledger row or changes a row's id, merchant_id,             *)
(* psp_provider, psp_transaction_id, amount or currency; the save of a get, a refund *)
(* or a webhook handler adds no row and changes only the row it looked up, and on    *)
(* that row only the status, and the error_message when the handler is that of       *)
(* payment_failed.                                                                   *)
C35_LedgerFrame ==
  [][/\ Len(ledger') >= Len(ledger)
     /\ \A n \in 1..Len(ledger) : SameIdentity(ledger[n], ledger'[n])
     /\ \A p \in Procs :
          Writes(p)
            => /\ Len(ledger') = Len(ledger)
               /\ \A n \in 1..Len(ledger) :
                    ledger'[n] # ledger[n]
                      => /\ ledger[n].id = procs[p].tx.id
                         /\ ledger'[n].error_message # ledger[n].error_message
                              => /\ procs[p].op = "webhook"
                                 /\ procs[p].ev.type = "payment_failed"]_vars

====
